---- MODULE Spec2Model ----
(***************************************************************************)
(* A model of the market-making bot of scv1234/popopo (src/src).           *)
(*                                                                         *)
(* Units.  Prices are integer cents (0.50 -> 50), share counts are         *)
(* integers, and ratios (skew, order-book imbalance) are kept as           *)
(* numerator/denominator pairs or cross-multiplied comparisons, so that    *)
(* no rounding is introduced by the model.                                 *)
(*                                                                         *)
(* Exceptions.  A Python exception is a value: an operator that models a   *)
(* function returns Raise(e) where the code raises, and an action models   *)
(* the state left behind at the point of the raise.                        *)
(*                                                                         *)
(* Scheduling.  The code runs on one asyncio event loop: a step of the     *)
(* model is the code between two points where a coroutine really           *)
(* suspends (network I/O, sleep, a lock that is held).  Awaiting a         *)
(* coroutine whose body never suspends (the executor's cancel_* and        *)
(* place_order wrap blocking SDK calls) does not yield to the loop.        *)
(***************************************************************************)
EXTENDS Integers, Sequences, FiniteSets, TLC

(***************************************************************************)
(* Bounds of the model.                                                    *)
(***************************************************************************)
\* positions are explored in -MaxPos .. MaxPos
MaxPos == 5
\* a single fill, mint or ledger delta moves at most MaxDelta shares
MaxDelta == 2
\* order ids the exchange hands out are 1 .. MaxOrders
MaxOrders == 2
\* the bot's fills are explored while each position stays in 0 .. MaxHeld
MaxHeld == 2
\* fill timestamps kept in trade_timestamps: 0 .. MaxStamps
MaxStamps == 5
\* tasks of one kind (emergency, cooldown, hedge) pending at once
MaxTasks == 1

(***************************************************************************)
(* Settings (src/src/config.py).  They are read from the environment; the  *)
(* model instantiates the exposure caps with small values so that the      *)
(* caps are reached within MaxPos.                                         *)
(***************************************************************************)
\* Settings.max_exposure_usd (default 1000.0), scaled
max_exposure_usd == 2
\* Settings.min_exposure_usd (default -1000.0), scaled
min_exposure_usd == -2
\* Settings.emergency_skew_limit = 0.7 = EmergencySkewNum / EmergencySkewDen
EmergencySkewNum == 7
EmergencySkewDen == 10
\* Settings.max_allowed_slippage = 0.01, in cents
max_allowed_slippage == 1
\* Settings.target_inventory_balance = 0.0
target_balance == 0
\* main.py:268: five fills inside the 10 s window are toxic flow
ToxicFillCount == 5
\* main.py:67 and main.py:208: the default tick 0.01, in thousandths
DefaultTick == 10
\* Settings.default_size (default 100.0), scaled like the exposure caps
default_size == 2
\* quote_engine.py:52: the default volatility_1h 0.005, in 1/10000
DefaultVolatility == 50

VARIABLES
    \* ---- Inventory (inventory_manager.py) ----
    yes_position,
    no_position,
    net_exposure_shares,
    \* ---- RiskManager (risk_manager.py) ----
    is_halted,
    \* ---- MarketMakerBot (main.py) ----
    running,
    state_lock,          \* "free", or the loop that holds asyncio.Lock
    current_market_id,
    yes_token_id,
    no_token_id,
    spread_cents,
    min_size,
    current_tick_size,
    last_quote_time,     \* 0 after a reset, 1 once a refresh stamped it
    orderbooks,          \* token id -> book
    open_orders,         \* order id -> order_data
    manual_order_ids,
    trade_timestamps,    \* the number of timestamps kept
    \* ---- coroutines and tasks of the event loop ----
    disc_pc,             \* run_market_discovery_loop
    disc_target,         \* the market_data it is applying
    cr_pc,               \* run_cancel_replace_cycle
    redeem_pc,           \* run_auto_redeem
    cleanup_pc,          \* cleanup: "idle", "closing", "done", "failed"
    closed,              \* the collaborators closed so far, in order
    reset_in_progress,   \* _reset_in_progress
    reset_pc,            \* _reset_local_market_state: "idle", "cancel"
    emergencies,         \* handle_emergency tasks created, not yet run
    cooldowns,           \* _cool_down_and_resume tasks sleeping
    stale_cooldowns,     \* those of them created before the latest halt
    hedges,              \* execute_auto_hedge calls waiting for the book
    \* ---- the exchange ----
    exch_live,           \* ids of the orders resting at the exchange
    \* ---- observations ----
    last_call,           \* the last call observed; `called` marks a
                         \* validate_order call
    quote_args,          \* the arguments of the last generate_quotes call
    engine_call,         \* the last call on the quote engine
    last_fill,           \* the last fill event handled
    recent_fills         \* the fills of the last 10 seconds, oldest first:
                         \* TRUE for a fill the handler stamped

ledgerVars == <<yes_position, no_position, net_exposure_shares>>
ctxVars == <<current_market_id, yes_token_id, no_token_id, spread_cents,
             min_size, current_tick_size>>
lifeVars == <<cleanup_pc, closed, reset_in_progress, reset_pc>>
loopVars == <<running, state_lock, disc_pc, disc_target, cr_pc, redeem_pc,
              lifeVars>>
orderVars == <<open_orders, manual_order_ids>>
taskVars == <<emergencies, cooldowns, stale_cooldowns, hedges>>
fillVars == <<last_fill, recent_fills>>
obsVars == <<last_call, quote_args, engine_call, fillVars>>
botVars == <<ctxVars, loopVars, orderVars, taskVars, last_quote_time,
             orderbooks, trade_timestamps, exch_live, quote_args, engine_call,
             fillVars>>
vars == <<ledgerVars, is_halted, ctxVars, loopVars, orderVars, taskVars,
          last_quote_time, orderbooks, trade_timestamps, exch_live, obsVars>>

Abs(x) == IF x < 0 THEN -x ELSE x

\* a returned value and a raised exception
Ret(ok, reason) == [raised |-> FALSE, ok |-> ok, reason |-> reason]
Raise(e) == [raised |-> TRUE, ok |-> FALSE, reason |-> e]

(***************************************************************************)
(* Inventory ledger: inventory_manager.py                                  *)
(***************************************************************************)
InPos(x) == x \in -MaxPos..MaxPos

\* mutant: the exposure is computed from the positions before the deltas
Inventory_update_stale(yes_delta, no_delta) ==
    /\ yes_position' = yes_position + yes_delta
    /\ no_position' = no_position + no_delta
    /\ net_exposure_shares' = yes_position - no_position

\* Inventory.update
Inventory_update(yes_delta, no_delta) ==
    /\ yes_position' = yes_position + yes_delta
    /\ no_position' = no_position + no_delta
    /\ net_exposure_shares' = yes_position' - no_position'

\* mutant: the total is the signed sum of the positions
get_skew_signed ==
    LET total_shares == yes_position + no_position
    IN  IF total_shares = 0 THEN <<0, 1>>
        ELSE <<Abs(net_exposure_shares), total_shares>>

\* Inventory.get_skew, as the fraction <<numerator, denominator>>
get_skew ==
    LET total_shares == Abs(yes_position) + Abs(no_position)
    IN  IF total_shares = 0 THEN <<0, 1>>
        ELSE <<Abs(net_exposure_shares), total_shares>>

\* InventoryManager.__init__: max_exposure_shares, min_exposure_shares
max_exposure_shares == max_exposure_usd * 2
min_exposure_shares == min_exposure_usd * 2

\* InventoryManager.reset
InventoryManager_reset ==
    /\ yes_position' = 0
    /\ no_position' = 0
    /\ net_exposure_shares' = 0

\* InventoryManager.update_inventory
update_inventory(yes_delta, no_delta) == Inventory_update(yes_delta, no_delta)

\* mutant: the minted shares are booked on the YES leg only
record_minting_one_leg(amount_shares) ==
    /\ yes_position' = yes_position + amount_shares
    /\ no_position' = no_position
    /\ net_exposure_shares' = yes_position' - no_position'

\* InventoryManager.record_minting
record_minting(amount_shares) ==
    /\ yes_position' = yes_position + amount_shares
    /\ no_position' = no_position + amount_shares
    /\ net_exposure_shares' = yes_position' - no_position'

\* InventoryManager.can_quote_yes / can_quote_no
can_quote_yes(size_shares) ==
    net_exposure_shares + size_shares <= max_exposure_shares

can_quote_no(size_shares) ==
    net_exposure_shares - size_shares >= min_exposure_shares

(***************************************************************************)
(* Order books.  A level is a keyed record {'price','size'} (fmt "dict")   *)
(* or a two-element list [price, size] (fmt "list"); both shapes occur in  *)
(* the code (main.py:600, main.py:615).  A token without a stored book is  *)
(* the empty dict {}.                                                      *)
(***************************************************************************)
Level(p, s) == [fmt |-> "dict", price |-> p, size |-> s]
ListLevel(p, s) == [fmt |-> "list", price |-> p, size |-> s]
Book(bids, asks) == [present |-> TRUE, bids |-> bids, asks |-> asks]
EmptyDict == [present |-> FALSE, bids |-> <<>>, asks |-> <<>>]

\* xs[:n]
Take(xs, n) == SubSeq(xs, 1, IF Len(xs) < n THEN Len(xs) ELSE n)

RECURSIVE SumSizes(_)
SumSizes(levels) ==
    IF levels = <<>> THEN 0 ELSE Head(levels).size + SumSizes(Tail(levels))

\* b['size'] raises TypeError on a list level
HasListLevel(levels) == \E i \in 1..Len(levels) : levels[i].fmt = "list"

(***************************************************************************)
(* Risk gate: risk_manager.py                                              *)
(***************************************************************************)
\* mutant: the volumes are summed over every level of the book
validate_obi_all_levels(orderbook) ==
    LET bids == orderbook.bids
        asks == orderbook.asks
        bid_vol == SumSizes(bids)
        ask_vol == SumSizes(asks)
    IN  IF bids = <<>> \/ asks = <<>> THEN Ret(TRUE, "OK")
        ELSE IF HasListLevel(bids) \/ HasListLevel(asks) THEN Raise("TypeError")
        ELSE IF bid_vol + ask_vol = 0 THEN Ret(TRUE, "OK")
        ELSE IF 10 * (bid_vol - ask_vol) > 8 * (bid_vol + ask_vol)
             THEN Ret(FALSE, "OBI_HIGH_UPWARD_RISK")
        ELSE IF 10 * (bid_vol - ask_vol) < -8 * (bid_vol + ask_vol)
             THEN Ret(FALSE, "OBI_HIGH_DOWNWARD_RISK")
        ELSE Ret(TRUE, "OK")

\* RiskManager.validate_obi; obi > 0.8 is 10*(bid-ask) > 8*(bid+ask)
validate_obi(orderbook) ==
    LET bids == orderbook.bids
        asks == orderbook.asks
        bid_vol == SumSizes(Take(bids, 3))
        ask_vol == SumSizes(Take(asks, 3))
    IN  IF bids = <<>> \/ asks = <<>> THEN Ret(TRUE, "OK")
        ELSE IF HasListLevel(Take(bids, 3)) \/ HasListLevel(Take(asks, 3))
             THEN Raise("TypeError")
        ELSE IF bid_vol + ask_vol = 0 THEN Ret(TRUE, "OK")
        ELSE IF 10 * (bid_vol - ask_vol) > 8 * (bid_vol + ask_vol)
             THEN Ret(FALSE, "OBI_HIGH_UPWARD_RISK")
        ELSE IF 10 * (bid_vol - ask_vol) < -8 * (bid_vol + ask_vol)
             THEN Ret(FALSE, "OBI_HIGH_DOWNWARD_RISK")
        ELSE Ret(TRUE, "OK")

\* RiskManager.calculate_hedge_need
calculate_hedge_need == -net_exposure_shares

\* RiskManager.get_inventory_status
get_inventory_status ==
    LET skew == get_skew
    IN  IF skew[1] * EmergencySkewDen >= EmergencySkewNum * skew[2] THEN "EMERGENCY"
        ELSE IF skew[1] * 10 >= 3 * skew[2] THEN "WARNING"
        ELSE "HEALTHY"

\* the rules of validate_order after the halt check
validate_order_rules(side, size_shares, orderbook) ==
    LET obi == validate_obi(orderbook)
    IN  IF obi.raised THEN obi
        ELSE IF ~obi.ok THEN obi
        ELSE IF side = "BUY" /\ ~can_quote_yes(size_shares)
             THEN Ret(FALSE, "MAX_SHARE_EXPOSURE_EXCEEDED")
        ELSE IF side # "BUY" /\ ~can_quote_no(size_shares)
             THEN Ret(FALSE, "MAX_SHARE_EXPOSURE_EXCEEDED")
        ELSE IF get_inventory_status = "EMERGENCY"
             THEN Ret(FALSE, "INVENTORY_CRITICAL_SKEW")
        ELSE Ret(TRUE, "OK")

\* mutant: the halt flag is looked at after the other rules
validate_order_halt_last(side, size_shares, orderbook) ==
    LET r == validate_order_rules(side, size_shares, orderbook)
    IN  IF r.raised \/ ~r.ok THEN r
        ELSE IF is_halted THEN Ret(FALSE, "TRADING_HALTED_BY_CIRCUIT_BREAKER")
        ELSE r

\* RiskManager.validate_order
validate_order(side, size_shares, orderbook) ==
    IF is_halted THEN Ret(FALSE, "TRADING_HALTED_BY_CIRCUIT_BREAKER")
    ELSE validate_order_rules(side, size_shares, orderbook)

\* RiskManager.validate_execution_price: the returned value
is_bad_execution(expected_price, actual_price, side) ==
    \/ side = "BUY" /\ actual_price > expected_price + max_allowed_slippage
    \/ side = "SELL" /\ actual_price < expected_price - max_allowed_slippage

\* mutant: a bad execution is reported but the gate is not halted
validate_execution_price_no_halt(expected_price, actual_price, side) ==
    is_halted' = is_halted

\* RiskManager.validate_execution_price: the effect on the gate
validate_execution_price(expected_price, actual_price, side) ==
    is_halted' = (is_halted \/ is_bad_execution(expected_price, actual_price, side))

\* mutant: the flag is left as it is
reset_halt_noop == is_halted' = is_halted

\* RiskManager.reset_halt
reset_halt == is_halted' = FALSE

(***************************************************************************)
(* Quote engine: quote_engine.py.  Inside the engine a price is a number   *)
(* of micro-dollars (0.47 -> 470000, one cent -> 10000), a tick size       *)
(* likewise (0.01 -> 10000), a volatility a number of 1/10000.  An         *)
(* optional value (Quote | None) is a sequence of length at most one.      *)
(*                                                                         *)
(* The code computes in binary floating point.  The one place where this   *)
(* changes a result by more than rounding noise is math.floor(price /      *)
(* tick_size): for a price on the tick grid the quotient is the integer or *)
(* falls just below it (0.50 / 0.01 -> 50.0, 0.47 / 0.01 ->                *)
(* 46.99999999999999), which the operands' binary representation decides.  *)
(* `drift` says that it fell below.  Tick sizes are powers of ten, as the  *)
(* exchange's are, so the final round(_, precision) keeps the multiple.    *)
(***************************************************************************)
None == <<>>
Some(x) == <<x>>

Max(a, b) == IF a >= b THEN a ELSE b
Min(a, b) == IF a <= b THEN a ELSE b

Quote(side, price, size, market, token_id) ==
    [side |-> side, price |-> price, size |-> size, market |-> market,
     token_id |-> token_id]

\* QuoteEngine.calculate_mid_price
calculate_mid_price(best_bid, best_ask) ==
    IF best_bid <= 0 \/ best_ask <= 0 THEN 0 ELSE (best_bid + best_ask) \div 2

\* QuoteEngine.round_to_tick.  With tick_size <= 0 the price is rounded to
\* the cent, a tie going where the binary value of the price lies.
round_to_tick(price, tick_size, drift) ==
    IF tick_size <= 0
    THEN LET q == price \div 10000
             r == price % 10000
         IN  IF r < 5000 \/ (r = 5000 /\ drift) THEN q * 10000
             ELSE (q + 1) * 10000
    ELSE LET q == price \div tick_size
         IN  IF price % tick_size = 0 /\ drift THEN (q - 1) * tick_size
             ELSE q * tick_size

\* InventoryManager.get_quote_size_yes / get_quote_size_no; the base sizes
\* of the model are even, so that base * 0.5 is a whole number
get_quote_size_yes(base_size_shares) ==
    IF net_exposure_shares > target_balance THEN base_size_shares \div 2
    ELSE base_size_shares

get_quote_size_no(base_size_shares) ==
    IF net_exposure_shares < target_balance THEN base_size_shares \div 2
    ELSE base_size_shares

\* lines 75-80: 1.0 below a volatility of 0.045, else
\* max(1.0, min(3.0, 1 + volatility_1h * 100)), in hundredths
volatility_multiplier(volatility_1h) ==
    IF volatility_1h < 450 THEN 100
    ELSE Max(100, Min(300, 100 + volatility_1h))

\* QuoteEngine.generate_quotes; user_input_shares is None or Some(n)
generate_quotes(market_id, yes_best_bid, yes_best_ask, no_best_bid, no_best_ask, yes_token_id_, no_token_id_, spread_cents_, min_size_shares, tick_size, volatility_1h, user_input_shares, drift_yes, drift_no) ==
    LET size == IF user_input_shares # None THEN user_input_shares[1]
                ELSE default_size
        final_shares == Max(size, min_size_shares)
        yes_mid == calculate_mid_price(yes_best_bid, yes_best_ask)
        no_mid == calculate_mid_price(no_best_bid, no_best_ask)
        dynamic_spread_usd ==
            spread_cents_ * volatility_multiplier(volatility_1h) * 100
        margin_usd == (dynamic_spread_usd * 9) \div 10
        skew_adjustment == net_exposure_shares * 5
        yes_bid_price ==
            round_to_tick(yes_mid - skew_adjustment - margin_usd, tick_size,
                          drift_yes)
        no_bid_price ==
            round_to_tick(no_mid + skew_adjustment - margin_usd, tick_size,
                          drift_no)
        yes_shares == get_quote_size_yes(final_shares)
        no_shares == get_quote_size_no(final_shares)
        yes_quote ==
            IF /\ yes_mid > 0 /\ can_quote_yes(yes_shares)
               /\ 10000 < yes_bid_price /\ yes_bid_price < 990000
            THEN Some(Quote("BUY", yes_bid_price, yes_shares, market_id,
                            yes_token_id_))
            ELSE None
        no_quote ==
            IF /\ no_mid > 0 /\ can_quote_no(no_shares)
               /\ 10000 < no_bid_price /\ no_bid_price < 990000
            THEN Some(Quote("BUY", no_bid_price, no_shares, market_id,
                            no_token_id_))
            ELSE None
    IN  IF yes_mid = 0 /\ no_mid = 0 THEN <<None, None>>
        ELSE <<yes_quote, no_quote>>

(***************************************************************************)
(* Inputs                                                                  *)
(***************************************************************************)
Sides == {"BUY", "SELL"}
Sizes == 1..MaxDelta
Prices == {48, 50, 52}
\* the prices of fills: two cents below the quoted 50, at it, and two above
FillPrices == {48, 50, 52}

\* order books handed to the gate: none, empty sides, balanced, one-sided
\* pressure (95 against 5), pressure only below the third level, pressure
\* on the third level, an imbalance of exactly 0.8, zero sizes, and
\* list-shaped levels
Books == {
    EmptyDict,
    Book(<<>>, <<>>),
    Book(<<Level(49, 5)>>, <<>>),
    Book(<<Level(49, 5)>>, <<Level(51, 5)>>),
    Book(<<Level(49, 95)>>, <<Level(51, 5)>>),
    Book(<<Level(49, 5)>>, <<Level(51, 95)>>),
    Book(<<Level(49, 1), Level(48, 1), Level(47, 1), Level(46, 97)>>,
         <<Level(51, 1), Level(52, 1), Level(53, 1)>>),
    Book(<<Level(49, 1), Level(48, 1), Level(47, 98)>>,
         <<Level(51, 1), Level(52, 1), Level(53, 1)>>),
    Book(<<Level(49, 9)>>, <<Level(51, 1)>>),
    Book(<<Level(49, 0)>>, <<Level(51, 0)>>),
    Book(<<ListLevel(49, 10)>>, <<ListLevel(51, 10)>>) }

NoCall == [op |-> "none", called |-> FALSE]

\* the markets the discovery scan can rank first
M1 == [market_id |-> "m1", yes_token_id |-> "y1", no_token_id |-> "n1",
       min_size |-> 20, spread_cents |-> 3, tick |-> 1]
M2 == [market_id |-> "m2", yes_token_id |-> "y2", no_token_id |-> "n2",
       min_size |-> 5, spread_cents |-> 4, tick |-> 10]
Markets == {M1, M2}
Tokens == {"y1", "n1", "y2", "n2"}
OrderIds == 1..MaxOrders
NoId == 0

\* MarketMakerBot.__init__, RiskManager.__init__, Inventory()
Init ==
    /\ yes_position = 0
    /\ no_position = 0
    /\ net_exposure_shares = 0
    /\ is_halted = FALSE
    /\ running = FALSE
    /\ state_lock = "free"
    /\ current_market_id = ""
    /\ yes_token_id = ""
    /\ no_token_id = ""
    /\ spread_cents = 3
    /\ min_size = 20
    /\ current_tick_size = DefaultTick
    /\ last_quote_time = 0
    /\ orderbooks = [t \in Tokens |-> EmptyDict]
    /\ open_orders = <<>>
    /\ manual_order_ids = {}
    /\ trade_timestamps = 0
    /\ disc_pc = "sleep"
    /\ disc_target = M1
    /\ cr_pc = "sleep"
    /\ redeem_pc = "sleep"
    /\ cleanup_pc = "idle"
    /\ closed = <<>>
    /\ reset_in_progress = FALSE
    /\ reset_pc = "idle"
    /\ emergencies = 0
    /\ cooldowns = 0
    /\ stale_cooldowns = 0
    /\ hedges = <<>>
    /\ exch_live = {}
    /\ last_call = NoCall
    /\ quote_args = NoCall
    /\ engine_call = NoCall
    /\ last_fill = NoCall
    /\ recent_fills = <<>>

(***************************************************************************)
(* Ledger operations, called in any order                                  *)
(***************************************************************************)
UpdateInventory ==
    \E yd \in -MaxDelta..MaxDelta, nd \in -MaxDelta..MaxDelta :
        /\ InPos(yes_position + yd) /\ InPos(no_position + nd)
        /\ update_inventory(yd, nd)
        /\ UNCHANGED <<is_halted, botVars, last_call>>

RecordMinting ==
    \E a \in 1..MaxDelta :
        /\ InPos(yes_position + a) /\ InPos(no_position + a)
        /\ record_minting(a)
        /\ UNCHANGED <<is_halted, botVars, last_call>>

\* the same call, recorded with the position it found
RecordMintingCall ==
    \E a \in 1..MaxDelta :
        /\ InPos(yes_position + a) /\ InPos(no_position + a)
        /\ record_minting(a)
        /\ last_call' = [op |-> "record_minting", called |-> FALSE,
                         amount |-> a, yes_before |-> yes_position]
        /\ UNCHANGED <<is_halted, botVars>>

ResetInventory ==
    /\ InventoryManager_reset
    /\ UNCHANGED <<is_halted, botVars, last_call>>

NextLedger == UpdateInventory \/ RecordMintingCall \/ ResetInventory

SpecLedger == Init /\ [][NextLedger]_vars

(***************************************************************************)
(* Manual minting: MarketMakerBot.execute_manual_mint (main.py 126-144)    *)
(***************************************************************************)
\* the parameters of OrderExecutor.split_assets without a default
\* (order_executor.py line 119) and the arguments main.py line 136 passes
SplitAssetsRequired == {"amount_usd", "condition_id"}
MintSplitArguments == {"amount_usd"}

\* binding the arguments of the call at line 136: a required parameter that
\* is not given raises TypeError before the coroutine exists; otherwise
\* the relayer's answer is returned (split_assets catches its exceptions)
call_split_assets(arguments, chain_ok) ==
    IF SplitAssetsRequired \subseteq arguments
    THEN Ret(chain_ok, "split") ELSE Raise("TypeError")

\* what get_usdc_balance answers for a requested amount; a failed query is
\* answered 0.0 (order_executor.py lines 208-214)
Balances == {"insufficient", "sufficient"}

\* execute_manual_mint: the returned value.  Every exception is caught at
\* line 142 and False is returned at line 144.
execute_manual_mint_result(balance, chain_ok) ==
    IF balance # "sufficient" THEN FALSE
    ELSE LET success == call_split_assets(MintSplitArguments, chain_ok)
         IN  ~success.raised /\ success.ok

\* execute_manual_mint: the ledger is written at line 139 only
ExecuteManualMint ==
    \E amount \in 1..MaxDelta, balance \in Balances, chain_ok \in BOOLEAN :
        /\ InPos(yes_position + amount) /\ InPos(no_position + amount)
        /\ IF execute_manual_mint_result(balance, chain_ok)
           THEN record_minting(amount)
           ELSE UNCHANGED ledgerVars
        /\ last_call' = [op |-> "execute_manual_mint", called |-> FALSE,
                         amount |-> amount, balance |-> balance,
                         chain_ok |-> chain_ok, yes_before |-> yes_position,
                         result |-> execute_manual_mint_result(balance, chain_ok)]
        /\ UNCHANGED <<is_halted, botVars>>

\* minting between fills booked on the ledger
NextMint == ExecuteManualMint \/ UpdateInventory

SpecMint == Init /\ [][NextMint]_vars

(***************************************************************************)
(* Gate operations, called in any order on any ledger state                *)
(***************************************************************************)
ValidateOrder ==
    \E side \in Sides, size \in Sizes, book \in Books :
        /\ last_call' = [op |-> "validate_order", called |-> TRUE,
                         side |-> side, size |-> size,
                         book |-> book, halted |-> is_halted,
                         result |-> validate_order(side, size, book)]
        /\ UNCHANGED <<ledgerVars, is_halted, botVars>>

ValidateExecutionPrice ==
    \E e \in Prices, a \in Prices \cup {49}, side \in Sides \cup {"UNKNOWN"} :
        /\ validate_execution_price(e, a, side)
        /\ last_call' = [op |-> "validate_execution_price", called |-> FALSE,
                         expected |-> e, actual |-> a, side |-> side,
                         halted |-> is_halted,
                         result |-> ~is_bad_execution(e, a, side)]
        /\ UNCHANGED <<ledgerVars, botVars>>

ResetHalt ==
    /\ reset_halt
    /\ last_call' = [op |-> "reset_halt", called |-> FALSE,
                     halted |-> is_halted]
    /\ UNCHANGED <<ledgerVars, botVars>>

NextGate ==
    \/ UpdateInventory
    \/ RecordMinting
    \/ ValidateOrder
    \/ ValidateExecutionPrice
    \/ ResetHalt

SpecGate == Init /\ [][NextGate]_vars

(***************************************************************************)
(* Quote engine operations, called on any ledger state                     *)
(***************************************************************************)
\* best bid and best ask of a token, in micro-dollars: a two-cent wide
\* book around 0.50, a book without bids, a book at the low edge of the
\* price range, and no book at all
YesBests == {<<490000, 510000>>, <<0, 510000>>, <<20000, 30000>>}
NoBests == {<<490000, 510000>>, <<0, 0>>}
\* tick sizes 0.01 and 0.001
QuoteTicks == {10000, 1000}
\* the default volatility and one in the defence band
Volatilities == {DefaultVolatility, 450}
UserShares == {None, Some(4)}
\* the market's minimum order size handed to the engine, in shares
QuoteMinSize == 2
\* prices handed to round_to_tick: off the grid, on it, below zero
RoundPrices == {473000, 470000, 472995, 465000, -2000}

GenerateQuotes ==
    \E yes_best \in YesBests, no_best \in NoBests, tick_size \in QuoteTicks,
       volatility_1h \in Volatilities, user_input_shares \in UserShares,
       drift_yes \in BOOLEAN, drift_no \in BOOLEAN :
        /\ engine_call' =
               [op |-> "generate_quotes", called |-> TRUE,
                yes_best_bid |-> yes_best[1], yes_best_ask |-> yes_best[2],
                no_best_bid |-> no_best[1], no_best_ask |-> no_best[2],
                tick_size |-> tick_size,
                min_size_shares |-> QuoteMinSize,
                result |-> generate_quotes(
                    M1.market_id, yes_best[1], yes_best[2], no_best[1],
                    no_best[2], M1.yes_token_id, M1.no_token_id,
                    M1.spread_cents, QuoteMinSize, tick_size, volatility_1h,
                    user_input_shares, drift_yes, drift_no)]
        /\ UNCHANGED <<ledgerVars, is_halted, ctxVars, loopVars, orderVars,
                       taskVars, last_quote_time, orderbooks, trade_timestamps,
                       exch_live, last_call, quote_args, fillVars>>

RoundToTick ==
    \E price \in RoundPrices, tick_size \in QuoteTicks \cup {0},
       drift \in BOOLEAN :
        /\ engine_call' =
               [op |-> "round_to_tick", called |-> TRUE, price |-> price,
                tick_size |-> tick_size,
                result |-> round_to_tick(price, tick_size, drift)]
        /\ UNCHANGED <<ledgerVars, is_halted, ctxVars, loopVars, orderVars,
                       taskVars, last_quote_time, orderbooks, trade_timestamps,
                       exch_live, last_call, quote_args, fillVars>>

NextQuote ==
    \/ UpdateInventory
    \/ RecordMinting
    \/ GenerateQuotes
    \/ RoundToTick

SpecQuote == Init /\ [][NextQuote]_vars

(***************************************************************************)
(* The exchange, as the executor sees it (order_executor.py).  An accepted *)
(* order rests until it is filled or cancelled.  cancel_all_orders and     *)
(* cancel_order catch the SDK's exception and return False; the outcome    *)
(* is the environment's.                                                   *)
(***************************************************************************)
Put(f, k, v) == [x \in DOMAIN f \cup {k} |-> IF x = k THEN v ELSE f[x]]
Remove(f, S) == [x \in DOMAIN f \ S |-> f[x]]

UsedIds == DOMAIN open_orders \cup exch_live \cup manual_order_ids
HasFreshId == OrderIds \ UsedIds # {}
FreshId == CHOOSE i \in OrderIds \ UsedIds : \A j \in OrderIds \ UsedIds : i <= j

\* OrderExecutor.cancel_all_orders, called when a market is set
cancel_all_orders(market_id, cancel_ok) ==
    exch_live' = IF cancel_ok THEN {} ELSE exch_live

\* self.orderbooks.get(token_id, {})
BookOf(token_id) ==
    IF token_id \in DOMAIN orderbooks THEN orderbooks[token_id] ELSE EmptyDict

(***************************************************************************)
(* Orchestrator: main.py                                                   *)
(***************************************************************************)
\* mutant: the critical section is entered without looking at the lock
acquire_unchecked(who) == state_lock' = who

\* async with self.state_lock: entered when the lock is free
acquire(who) ==
    /\ state_lock = "free"
    /\ state_lock' = who

\* leaving the async with block, normally or by an exception
release == state_lock' = "free"

\* _apply_market_target._critical_section, lines 175-191: up to the first
\* suspension.  manual_order_ids and the ledger are not touched.
critical_section_head(market_data, cancel_ok) ==
    /\ IF current_market_id # ""
       THEN /\ cancel_all_orders(current_market_id, cancel_ok)
            /\ open_orders' = <<>>
       ELSE UNCHANGED <<exch_live, open_orders>>
    /\ current_market_id' = market_data.market_id
    /\ yes_token_id' = market_data.yes_token_id
    /\ no_token_id' = market_data.no_token_id
    /\ min_size' = market_data.min_size
    /\ spread_cents' = market_data.spread_cents
    /\ last_quote_time' = 0
    /\ is_halted' = FALSE

\* MarketMakerBot.update_orderbook: a fetched book replaces the stored one,
\* an empty answer leaves it
update_orderbook(yes_id, no_id, yes_book, no_book) ==
    orderbooks' = [t \in DOMAIN orderbooks |->
        IF t = yes_id /\ yes_book.present THEN yes_book
        ELSE IF t = no_id /\ no_book.present THEN no_book
        ELSE orderbooks[t]]

\* MarketMakerBot.run up to the start of the loops: the first scan, the
\* unlocked _apply_market_target (the websocket is not connected yet, so
\* the critical section does not suspend), then running loops.  run is
\* called once, by the lifespan of the API server or by main, and cleanup
\* ends the process.
Run ==
    /\ ~running /\ cleanup_pc = "idle"
    /\ running' = TRUE
    /\ \/ \E m \in Markets :
            /\ critical_section_head(m, TRUE)
            /\ \E tick \in {m.tick, DefaultTick} : current_tick_size' = tick
       \/ UNCHANGED <<ctxVars, exch_live, open_orders, last_quote_time, is_halted>>
    /\ UNCHANGED <<ledgerVars, redeem_pc, lifeVars, state_lock, disc_pc, disc_target, cr_pc,
                   manual_order_ids, taskVars, orderbooks, trade_timestamps,
                   obsVars>>

\* the candidate lists a scan can return, best first
Candidates == {<<>>, <<M1>>, <<M2>>, <<M1, M2>>, <<M2, M1>>}

\* mutant: the first candidate is applied whatever the current market is
switch_target_any(candidates) ==
    IF candidates # <<>> THEN Some(Head(candidates)) ELSE None

\* run_market_discovery_loop, lines 156-158: the market to switch to, if any
switch_target(candidates) ==
    IF candidates # <<>> /\ Head(candidates).market_id # current_market_id
    THEN Some(Head(candidates)) ELSE None

\* run_market_discovery_loop: the scan ranks another market first and the
\* lock is free: the critical section runs up to its first suspension
DiscScanSwitch ==
    /\ running /\ disc_pc = "sleep"
    /\ acquire("disc")
    /\ \E candidates \in Candidates, cancel_ok \in BOOLEAN :
        /\ switch_target(candidates) # None
        /\ critical_section_head(switch_target(candidates)[1], cancel_ok)
        /\ disc_target' = switch_target(candidates)[1]
    /\ disc_pc' = "cs_io"
    /\ UNCHANGED <<ledgerVars, redeem_pc, lifeVars, running, cr_pc, current_tick_size,
                   manual_order_ids, taskVars, orderbooks, trade_timestamps,
                   obsVars>>

\* the subscriptions and the book refresh return: lines 199-208 fetch the
\* tick size (or fall back to 0.01) and the lock is released
DiscIoDone(books) ==
    /\ disc_pc = "cs_io"
    /\ \E yb \in books, nb \in books :
        update_orderbook(yes_token_id, no_token_id, yb, nb)
    /\ \E tick \in {disc_target.tick, DefaultTick} : current_tick_size' = tick
    /\ release
    /\ disc_pc' = "sleep"
    /\ UNCHANGED <<ledgerVars, redeem_pc, lifeVars, is_halted, running, cr_pc, disc_target,
                   current_market_id, yes_token_id, no_token_id, spread_cents,
                   min_size, last_quote_time, orderVars, taskVars,
                   trade_timestamps, exch_live, obsVars>>

\* a loop whose body let an exception escape the while statement: the task
\* is over
loop_dies == "dead"

\* the except clauses of the three loops (main.py 164-165, 456-458,
\* 541-542) sit inside the while statement: the exception is logged and the
\* loop goes on to its sleep and its next tick
after_exception == "sleep"

\* the scan returns nothing, or ranks the current market first: the loop
\* goes to its sleep
DiscScanSame ==
    /\ running /\ disc_pc = "sleep"
    /\ \E candidates \in Candidates : switch_target(candidates) = None
    /\ UNCHANGED vars

\* subscribe_orderbook raises (websocket_client.connect re-raises): the
\* exception leaves the critical section at line 195/196, the lock is
\* released and the loop logs it
DiscIoFail ==
    /\ disc_pc = "cs_io"
    /\ release
    /\ disc_pc' = after_exception
    /\ UNCHANGED <<ledgerVars, redeem_pc, lifeVars, is_halted, running, cr_pc, disc_target, ctxVars,
                   last_quote_time, orderbooks, orderVars, taskVars,
                   trade_timestamps, exch_live, obsVars>>

\* mutant: the emergency halts and cancels but keeps the bot's record
handle_emergency_keeps_record(exit_position, cancel_ok) ==
    /\ is_halted' = TRUE
    /\ IF current_market_id # ""
       THEN cancel_all_orders(current_market_id, cancel_ok)
       ELSE UNCHANGED exch_live
    /\ UNCHANGED open_orders
    /\ cooldowns' = IF exit_position THEN cooldowns ELSE cooldowns + 1
    /\ stale_cooldowns' = cooldowns

\* MarketMakerBot.handle_emergency.  With exit_position the liquidation
\* raises AttributeError (Inventory has no yes_shares) before the cooldown
\* is scheduled; the except clause logs it.
handle_emergency(exit_position, cancel_ok) ==
    /\ is_halted' = TRUE
    /\ IF current_market_id # ""
       THEN /\ cancel_all_orders(current_market_id, cancel_ok)
            /\ open_orders' = <<>>
       ELSE UNCHANGED <<exch_live, open_orders>>
    /\ cooldowns' = IF exit_position THEN cooldowns ELSE cooldowns + 1
    /\ stale_cooldowns' = cooldowns

\* MarketMakerBot._reset_local_market_state; it does not suspend, so
\* _reset_in_progress is false whenever another task looks at it
reset_local_market_state(cancel_ok) ==
    /\ IF current_market_id # ""
       THEN cancel_all_orders(current_market_id, cancel_ok)
       ELSE UNCHANGED exch_live
    /\ open_orders' = <<>>
    /\ manual_order_ids' = {}
    /\ last_quote_time' = 0

\* MarketMakerBot._handle_trade_update.  A SELL fill raises AttributeError
\* at line 256 (QuoteEngine has no update_last_sold_price) before any
\* state changes.  Otherwise the ledger and the timestamps are updated;
\* with 5 timestamps kept the emergency task is created and the handler
\* returns; else, with an order id, line 274 raises NameError (order_info).
\* Lines 277-279 are never reached.
HandleTradeUpdate(order_id, token_id, side, size, kept) ==
    /\ running
    /\ order_id \in DOMAIN open_orders =>
           /\ token_id = open_orders[order_id].token_id
           /\ side = open_orders[order_id].side
    /\ exch_live' = exch_live \ {order_id}
    /\ IF side = "SELL"
       THEN UNCHANGED <<ledgerVars, trade_timestamps, emergencies>>
       ELSE /\ update_inventory(
                  IF token_id = yes_token_id
                  THEN (IF side = "BUY" THEN size ELSE -size) ELSE 0,
                  IF token_id = no_token_id
                  THEN (IF side = "BUY" THEN size ELSE -size) ELSE 0)
            /\ yes_position' \in 0..MaxHeld /\ no_position' \in 0..MaxHeld
            /\ kept \in 1..(trade_timestamps + 1) /\ kept <= MaxStamps
            /\ trade_timestamps' = kept
            /\ IF kept >= ToxicFillCount
               THEN emergencies < MaxTasks /\ emergencies' = emergencies + 1
               ELSE UNCHANGED emergencies
    /\ UNCHANGED <<is_halted, ctxVars, loopVars, orderVars, cooldowns,
                   stale_cooldowns, hedges,
                   last_quote_time, orderbooks, last_call, quote_args,
                   engine_call>>

\* the task created at line 269: handle_emergency("TOXIC_FLOW_DETECTED")
EmergencyTask ==
    /\ emergencies > 0 /\ cooldowns < MaxTasks
    /\ emergencies' = emergencies - 1
    /\ \E cancel_ok \in BOOLEAN : handle_emergency(FALSE, cancel_ok)
    /\ UNCHANGED <<ledgerVars, ctxVars, loopVars, manual_order_ids, hedges,
                   last_quote_time, orderbooks, trade_timestamps, obsVars>>

\* MarketMakerBot._cool_down_and_resume, after its sleep
CoolDownResume ==
    /\ cooldowns > 0
    /\ cooldowns' = cooldowns - 1
    /\ stale_cooldowns' = Max(stale_cooldowns - 1, 0)
    /\ reset_halt
    /\ trade_timestamps' = 0
    /\ recent_fills' = <<>>
    /\ UNCHANGED <<ledgerVars, ctxVars, loopVars, orderVars, emergencies, hedges,
                   last_quote_time, orderbooks, exch_live, last_call,
                   quote_args, engine_call, last_fill>>

NoInfo == [given |-> FALSE]
OrderInfo(price, side) == [given |-> TRUE, price |-> price, side |-> side]

\* MarketMakerBot._defend_after_trade up to the suspension inside
\* execute_auto_hedge (get_orderbook)
DefendAfterTrade(actual_price, order_info, cancel_ok) ==
    /\ running
    /\ IF get_inventory_status = "EMERGENCY"
       THEN /\ handle_emergency(TRUE, cancel_ok)
            /\ UNCHANGED <<manual_order_ids, last_quote_time, hedges>>
       ELSE IF /\ order_info.given
               /\ is_bad_execution(order_info.price, actual_price, order_info.side)
       THEN /\ is_halted' = TRUE
            /\ reset_local_market_state(cancel_ok)
            /\ stale_cooldowns' = cooldowns
            /\ UNCHANGED <<cooldowns, hedges>>
       ELSE /\ IF Abs(calculate_hedge_need) >= 1
               THEN /\ Len(hedges) < MaxTasks
                    /\ hedges' = Append(hedges,
                          [amount |-> calculate_hedge_need,
                           target_token |-> IF calculate_hedge_need > 0
                                            THEN yes_token_id ELSE no_token_id])
               ELSE UNCHANGED hedges
            /\ UNCHANGED <<is_halted, exch_live, orderVars, last_quote_time,
                           cooldowns, stale_cooldowns>>
    /\ UNCHANGED <<ledgerVars, ctxVars, loopVars, emergencies, orderbooks,
                   trade_timestamps, obsVars>>

\* MarketMakerBot.execute_auto_hedge, lines 433-436: the BUY order goes to
\* the executor; its result is dropped, so the order is not recorded
HedgePlace ==
    /\ hedges # <<>>
    /\ hedges' = Tail(hedges)
    /\ \/ HasFreshId /\ exch_live' = exch_live \cup {FreshId}
       \/ UNCHANGED exch_live
    /\ UNCHANGED <<ledgerVars, is_halted, ctxVars, loopVars, orderVars,
                   emergencies, cooldowns, stale_cooldowns, last_quote_time,
                   orderbooks,
                   trade_timestamps, obsVars>>

\* MarketMakerBot._place_quote.  An exception of validate_order leaves the
\* method before the try; place_order returns None when the SDK raises.
\* OrderExecutor.place_order (order_executor.py lines 175-190) awaits
\* nothing, so the method runs from validate_order to the recording of the
\* id without giving up the event loop: it is one step.
place_quote(quote, outcome, is_manual) ==
    LET v == validate_order(quote.side, quote.size, BookOf(quote.token_id))
        order_data == [market |-> quote.market, side |-> quote.side,
                       size |-> quote.size, price |-> quote.price,
                       token_id |-> quote.token_id, outcome |-> outcome]
    IN  IF v.raised \/ ~v.ok
        THEN UNCHANGED <<open_orders, manual_order_ids, exch_live>>
        ELSE \/ /\ HasFreshId
                /\ open_orders' = Put(open_orders, FreshId, order_data)
                /\ manual_order_ids' = IF is_manual
                                       THEN manual_order_ids \cup {FreshId}
                                       ELSE manual_order_ids
                /\ exch_live' = exch_live \cup {FreshId}
             \/ UNCHANGED <<open_orders, manual_order_ids, exch_live>>

\* a call of _place_quote with a quote on a token of the current market
PlaceQuoteOf(sides, prices, manuals) ==
    /\ current_market_id # ""
    /\ \E side \in sides, price \in prices, is_manual \in manuals,
          yes \in BOOLEAN :
        place_quote(Quote(side, price, 1, current_market_id,
                          IF yes THEN yes_token_id ELSE no_token_id),
                    IF yes THEN "YES" ELSE "NO", is_manual)
    /\ UNCHANGED <<ledgerVars, is_halted, ctxVars, loopVars, taskVars,
                   last_quote_time, orderbooks, trade_timestamps, obsVars>>

PlaceQuote == PlaceQuoteOf(Sides, {50}, BOOLEAN)

\* api_server.reset_bot
ResetBot ==
    /\ is_halted
    /\ reset_halt
    /\ UNCHANGED <<ledgerVars, botVars, last_call>>

\* MarketMakerBot.cancel_single_order
CancelSingleOrder ==
    /\ \E order_id \in OrderIds :
        \/ /\ exch_live' = exch_live \ {order_id}
           /\ manual_order_ids' = manual_order_ids \ {order_id}
           /\ open_orders' = Remove(open_orders, {order_id})
        \/ UNCHANGED <<exch_live, orderVars>>
    /\ UNCHANGED <<ledgerVars, is_halted, ctxVars, loopVars, taskVars,
                   last_quote_time, orderbooks, trade_timestamps, obsVars>>

\* MarketMakerBot.batch_cancel_manual_orders: batch_cancel_orders cancels
\* one id after the other and returns 0 when one of the calls raised
BatchCancelManual ==
    /\ manual_order_ids # {}
    /\ \E done \in SUBSET manual_order_ids :
        /\ exch_live' = exch_live \ done
        /\ IF done = manual_order_ids
           THEN /\ manual_order_ids' = {}
                /\ open_orders' = Remove(open_orders, manual_order_ids)
           ELSE UNCHANGED orderVars
    /\ UNCHANGED <<ledgerVars, is_halted, ctxVars, loopVars, taskVars,
                   last_quote_time, orderbooks, trade_timestamps, obsVars>>

\* mutant: every tracked order is taken for stale
stale_ids_all == DOMAIN open_orders

\* _cancel_stale_orders, line 524: the tracked ids that are not manual
stale_ids == DOMAIN open_orders \ manual_order_ids

\* MarketMakerBot._cancel_stale_orders: `done` are the ids cancelled before
\* a call of the batch raised; every stale id is popped whatever it returns
CancelStaleOrders ==
    /\ stale_ids # {}
    /\ \E done \in SUBSET stale_ids :
        exch_live' = exch_live \ done
    /\ open_orders' = Remove(open_orders, stale_ids)
    /\ last_call' = [op |-> "cancel_stale_orders", called |-> FALSE,
                     stale |-> stale_ids]
    /\ UNCHANGED <<ledgerVars, is_halted, ctxVars, loopVars, manual_order_ids,
                   taskVars, last_quote_time, orderbooks, trade_timestamps,
                   quote_args, engine_call, fillVars>>

\* the fill feed: a fill of a resting order, or one without an order id
TradeUpdate ==
    \E order_id \in exch_live \cup {NoId}, token_id \in Tokens, side \in Sides,
       size \in Sizes, kept \in 1..MaxStamps :
        /\ HandleTradeUpdate(order_id, token_id, side, size, kept)
        /\ UNCHANGED fillVars

\* a fill event with its price: a fill of an order resting at the exchange,
\* or a BUY fill without an order id on the YES token of another market.
\* No stamp has left the 10 second window.
FillEvent ==
    \E order_id \in exch_live \cup {NoId}, token_id \in Tokens, side \in Sides,
       size \in Sizes, price \in FillPrices :
        /\ order_id = NoId =>
               /\ side = "BUY" /\ size = 1
               /\ token_id \in {"y1", "y2"} \ {yes_token_id}
        /\ order_id # NoId => token_id \in {yes_token_id, no_token_id}
        /\ HandleTradeUpdate(order_id, token_id, side, size,
                             Min(trade_timestamps + 1, MaxStamps))
        /\ last_fill' = [op |-> "trade_update", called |-> TRUE,
                         order_id |-> order_id, token_id |-> token_id,
                         side |-> side, size |-> size, price |-> price]
        /\ UNCHANGED recent_fills

RECURSIVE Stamped(_)
Stamped(fills) ==
    IF fills = <<>> THEN 0
    ELSE (IF Head(fills) THEN 1 ELSE 0) + Stamped(Tail(fills))

\* a fill event on the wall clock: `expired` of the recent fills are older
\* than 10 seconds when it arrives, and the filter of line 267 keeps the
\* stamps of the others
TimedFill ==
    \E token_id \in Tokens, side \in Sides,
       expired \in 0..Len(recent_fills) :
        LET rest == SubSeq(recent_fills, expired + 1, Len(recent_fills))
        IN  /\ Len(rest) < MaxStamps
            /\ HandleTradeUpdate(NoId, token_id, side, 1, Stamped(rest) + 1)
            /\ recent_fills' = Append(rest, side # "SELL")
            /\ UNCHANGED last_fill

\* a manual order of either side at 0.50
PlaceManualQuote == PlaceQuoteOf(Sides, {50}, {TRUE})

\* the fill handler as it is wired, with the tasks it creates, and quotes
\* placed on the current market
NextFills ==
    \/ Run
    \/ PlaceManualQuote
    \/ FillEvent
    \/ EmergencyTask
    \/ CoolDownResume

\* a created task runs, and the sleep of the cooldown ends
FillFairness ==
    /\ WF_vars(EmergencyTask)
    /\ WF_vars(CoolDownResume)

SpecFills == Init /\ [][NextFills]_vars /\ FillFairness

\* bursts of fills against the clock
NextToxic ==
    \/ Run
    \/ TimedFill
    \/ EmergencyTask
    \/ CoolDownResume

SpecToxic == Init /\ [][NextToxic]_vars

DefendTask ==
    \E actual_price \in Prices, cancel_ok \in BOOLEAN,
       order_info \in {NoInfo} \cup {OrderInfo(50, s) : s \in Sides} :
        DefendAfterTrade(actual_price, order_info, cancel_ok)

\* the bot's halting and ledger: the start, the discovery loop, the fill
\* handler, the tasks it creates, the defend step and the manual reset
Next ==
    \/ Run
    \/ DiscScanSwitch
    \/ DiscIoDone({EmptyDict})
    \/ DiscIoFail
    \/ TradeUpdate
    \/ EmergencyTask
    \/ CoolDownResume
    \/ DefendTask
    \/ HedgePlace
    \/ ResetBot

Spec == Init /\ [][Next]_vars

\* the bot's order tracking: orders are placed, cancelled one by one or in
\* a batch, and swept by the market switch and the circuit breaker
NextOrders ==
    \/ Run
    \/ DiscScanSwitch
    \/ DiscScanSame
    \/ DiscIoDone({EmptyDict})
    \/ DiscIoFail
    \/ PlaceQuote
    \/ CancelSingleOrder
    \/ BatchCancelManual
    \/ CancelStaleOrders
    \/ DefendTask
    \/ ResetBot

SpecOrders == Init /\ [][NextOrders]_vars

\* quotes of the sell side at several prices, and the fills: one leg of a
\* pair is sold and the other leg is quoted afterwards
PlaceSellQuote == PlaceQuoteOf({"SELL"}, Prices, {FALSE})

NextLeg ==
    \/ Run
    \/ PlaceSellQuote
    \/ TradeUpdate
    \/ EmergencyTask
    \/ CoolDownResume

SpecLeg == Init /\ [][NextLeg]_vars

(***************************************************************************)
(* The two loops and the lock                                              *)
(***************************************************************************)
\* the scan ranks another market first while the cancel-replace tick holds
\* the lock: _apply_market_target waits with the market_data of that scan
DiscScanBlocked ==
    /\ running /\ disc_pc = "sleep" /\ state_lock # "free"
    /\ \E candidates \in Candidates :
        /\ switch_target(candidates) # None
        /\ disc_target' = switch_target(candidates)[1]
    /\ disc_pc' = "wait_lock"
    /\ UNCHANGED <<ledgerVars, redeem_pc, lifeVars, is_halted, ctxVars, running, state_lock, cr_pc,
                   orderVars, taskVars, last_quote_time, orderbooks,
                   trade_timestamps, exch_live, obsVars>>

\* the lock is handed over: the critical section runs up to its suspension
DiscAcquire ==
    /\ disc_pc = "wait_lock"
    /\ acquire("disc")
    /\ \E cancel_ok \in BOOLEAN : critical_section_head(disc_target, cancel_ok)
    /\ disc_pc' = "cs_io"
    /\ UNCHANGED <<ledgerVars, redeem_pc, lifeVars, running, cr_pc, disc_target, current_tick_size,
                   manual_order_ids, taskVars, orderbooks, trade_timestamps,
                   obsVars>>

\* refresh_quotes lines 474-477 and get_bb_ba (lines 611-617): the price of
\* the first level of each side, 0.0 and 1.0 for an empty side, in cents
best_bid(book) == IF book.bids # <<>> THEN book.bids[1].price ELSE 0
best_ask(book) == IF book.asks # <<>> THEN book.asks[1].price ELSE 100

\* the keyword parameters of QuoteEngine.generate_quotes (quote_engine.py
\* lines 22-37) and the keywords the two call sites pass
GenerateQuotesKeywords ==
    {"market_id", "yes_best_bid", "yes_best_ask", "no_best_bid", "no_best_ask",
     "yes_token_id", "no_token_id", "spread_cents", "min_size_shares",
     "tick_size", "volatility_1h", "user_input_shares", "drift_yes", "drift_no"}
RefreshKeywords == {"yes_vol_1h", "no_vol_1h"}
ManualKeywords ==
    {"market_id", "yes_best_bid", "yes_best_ask", "no_best_bid", "no_best_ask",
     "yes_token_id", "no_token_id", "spread_cents", "min_size_shares",
     "tick_size", "yes_vol_1h", "no_vol_1h", "user_input_shares"}

\* binding the keywords of a call: a keyword the function does not have
\* raises TypeError before its body runs
call_generate_quotes(keywords) ==
    IF keywords \subseteq GenerateQuotesKeywords
    THEN Ret(TRUE, "OK") ELSE Raise("TypeError")

QuoteArgs(caller, market_id, yes_id, no_id, yes_book, no_book) ==
    [called |-> TRUE, caller |-> caller, market_id |-> market_id,
     result |-> call_generate_quotes(IF caller = "refresh" THEN RefreshKeywords
                                     ELSE ManualKeywords),
     yes_token_id |-> yes_id, no_token_id |-> no_id,
     spread_cents |-> spread_cents, min_size |-> min_size,
     tick_size |-> current_tick_size,
     yes_best_bid |-> best_bid(yes_book), yes_best_ask |-> best_ask(yes_book),
     no_best_bid |-> best_bid(no_book), no_best_ask |-> best_ask(no_book)]

\* MarketMakerBot.refresh_quotes, entered with the lock held.  `elapsed` is
\* the clock's answer at line 462 (always true after a reset to 0).  With
\* both books stored, the call at line 479 passes yes_vol_1h and no_vol_1h,
\* which generate_quotes does not take: TypeError, after the arguments are
\* read; the loop's except clause logs it.  Lines 485-490 are not reached.
refresh_quotes(elapsed) ==
    IF ~elapsed /\ last_quote_time # 0
    THEN /\ UNCHANGED <<last_quote_time, quote_args, state_lock>>
         /\ cr_pc' = "sleep"
    ELSE /\ last_quote_time' = 1
         /\ IF ~BookOf(yes_token_id).present \/ ~BookOf(no_token_id).present
            THEN /\ cr_pc' = "refresh_io"
                 /\ state_lock' = "cr"
                 /\ UNCHANGED quote_args
            ELSE /\ quote_args' = QuoteArgs("refresh", current_market_id,
                                            yes_token_id, no_token_id,
                                            BookOf(yes_token_id),
                                            BookOf(no_token_id))
                 /\ cr_pc' = IF quote_args'.result.raised
                             THEN after_exception ELSE "sleep"
                 /\ UNCHANGED state_lock

\* run_cancel_replace_cycle: a tick that finds the bot halted or without a
\* market only sleeps
CRIdle ==
    /\ running /\ cr_pc = "sleep"
    /\ is_halted \/ current_market_id = ""
    /\ UNCHANGED vars

\* a tick that takes the free lock
CRTick ==
    /\ running /\ cr_pc = "sleep"
    /\ ~is_halted /\ current_market_id # ""
    /\ state_lock = "free"
    /\ \E elapsed \in BOOLEAN : refresh_quotes(elapsed)
    /\ UNCHANGED <<ledgerVars, redeem_pc, lifeVars, is_halted, ctxVars, running, disc_pc, disc_target,
                   orderVars, taskVars, orderbooks, trade_timestamps, exch_live,
                   last_call, engine_call, fillVars>>

\* a tick that finds the lock held by the market switch
CRBlocked ==
    /\ running /\ cr_pc = "sleep"
    /\ ~is_halted /\ current_market_id # ""
    /\ state_lock # "free"
    /\ cr_pc' = "wait_lock"
    /\ UNCHANGED <<ledgerVars, redeem_pc, lifeVars, is_halted, ctxVars, running, state_lock, disc_pc,
                   disc_target, orderVars, taskVars, last_quote_time, orderbooks,
                   trade_timestamps, exch_live, obsVars>>

\* the lock is handed over to the waiting tick
CRAcquire ==
    /\ cr_pc = "wait_lock"
    /\ state_lock = "free"
    /\ \E elapsed \in BOOLEAN : refresh_quotes(elapsed)
    /\ UNCHANGED <<ledgerVars, redeem_pc, lifeVars, is_halted, ctxVars, running, disc_pc, disc_target,
                   orderVars, taskVars, orderbooks, trade_timestamps, exch_live,
                   last_call, engine_call, fillVars>>

\* update_orderbook of line 468 returns and the tick ends
CRIoDone(books) ==
    /\ cr_pc = "refresh_io"
    /\ \E yb \in books, nb \in books :
        update_orderbook(yes_token_id, no_token_id, yb, nb)
    /\ release
    /\ cr_pc' = "sleep"
    /\ UNCHANGED <<ledgerVars, redeem_pc, lifeVars, is_halted, ctxVars, running, disc_pc, disc_target,
                   orderVars, taskVars, last_quote_time, trade_timestamps,
                   exch_live, obsVars>>

\* the books the REST endpoint answers with (get_orderbook returns the
\* response as it is, honeypot_service.py lines 45-62): none, a one-level
\* book, and a two-level book whose levels are not ordered by price
RestBooks ==
    {EmptyDict,
     Book(<<Level(49, 5)>>, <<Level(51, 5)>>),
     Book(<<Level(48, 5), Level(49, 5)>>, <<Level(52, 5), Level(51, 5)>>)}

\* api_server.place_semi_auto_order and execute_manual_safety_order, from
\* the point where both books are at hand (memory first, then REST):
\* the call at line 625 reads spread_cents, min_size and current_tick_size
\* without the lock and raises the same TypeError; False is returned
ManualSafetyOrder(market_id, yes_id, no_id) ==
    /\ ~is_halted
    /\ \E yes_rest, no_rest \in RestBooks :
        LET yes_book == IF BookOf(yes_id).present THEN BookOf(yes_id) ELSE yes_rest
            no_book == IF BookOf(no_id).present THEN BookOf(no_id) ELSE no_rest
        IN  /\ yes_book.present /\ no_book.present
            /\ quote_args' = QuoteArgs("manual", market_id, yes_id, no_id,
                                       yes_book, no_book)
    /\ UNCHANGED <<ledgerVars, is_halted, ctxVars, loopVars, orderVars, taskVars,
                   last_quote_time, orderbooks, trade_timestamps, exch_live,
                   last_call, engine_call, fillVars>>

\* a manual order on the market the bot is on
ManualOrderOnCurrent ==
    /\ current_market_id # ""
    /\ ManualSafetyOrder(current_market_id, yes_token_id, no_token_id)

\* the discovery loop, the cancel-replace loop and the manual order
NextSwitch ==
    \/ Run
    \/ DiscScanSwitch
    \/ DiscScanSame
    \/ DiscScanBlocked
    \/ DiscAcquire
    \/ DiscIoDone(RestBooks)
    \/ DiscIoFail
    \/ CRIdle
    \/ CRTick
    \/ CRBlocked
    \/ CRAcquire
    \/ CRIoDone(RestBooks)
    \/ ManualOrderOnCurrent

SpecSwitch == Init /\ [][NextSwitch]_vars

(***************************************************************************)
(* Exceptions in the loop bodies and the auto-redeem loop                  *)
(***************************************************************************)
\* run_market_discovery_loop: honeypot_service.scan raises; nothing of the
\* bot has changed yet
DiscScanFail ==
    /\ running /\ disc_pc = "sleep"
    /\ disc_pc' = after_exception
    /\ UNCHANGED <<ledgerVars, is_halted, ctxVars, running, state_lock,
                   disc_target, cr_pc, redeem_pc, lifeVars, orderVars, taskVars,
                   last_quote_time, orderbooks, trade_timestamps, exch_live,
                   obsVars>>

\* run_auto_redeem with auto_redeem_enabled: auto_redeem_all is waiting for
\* the positions of the address
RedeemTick ==
    /\ running /\ redeem_pc = "sleep"
    /\ redeem_pc' = "io"
    /\ UNCHANGED <<ledgerVars, is_halted, ctxVars, running, state_lock, disc_pc,
                   disc_target, cr_pc, lifeVars, orderVars, taskVars,
                   last_quote_time,
                   orderbooks, trade_timestamps, exch_live, obsVars>>

\* auto_redeem_all returns its count; the bot keeps nothing of it
RedeemIoDone ==
    /\ redeem_pc = "io"
    /\ redeem_pc' = "sleep"
    /\ UNCHANGED <<ledgerVars, is_halted, ctxVars, running, state_lock, disc_pc,
                   disc_target, cr_pc, lifeVars, orderVars, taskVars,
                   last_quote_time,
                   orderbooks, trade_timestamps, exch_live, obsVars>>

\* auto_redeem_all raises (float() of a position's value at
\* auto_redeem.py line 54 is outside every try of the service)
RedeemIoFail ==
    /\ redeem_pc = "io"
    /\ redeem_pc' = after_exception
    /\ UNCHANGED <<ledgerVars, is_halted, ctxVars, running, state_lock, disc_pc,
                   disc_target, cr_pc, lifeVars, orderVars, taskVars,
                   last_quote_time,
                   orderbooks, trade_timestamps, exch_live, obsVars>>

\* the three loops with their exception paths
NextLoops ==
    \/ NextSwitch
    \/ DiscScanFail
    \/ RedeemTick
    \/ RedeemIoDone
    \/ RedeemIoFail

\* every awaited call returns or raises, and asyncio.Lock hands the lock to
\* its waiters in turn
LoopFairness ==
    /\ WF_vars(DiscIoDone(RestBooks) \/ DiscIoFail)
    /\ SF_vars(DiscAcquire)
    /\ SF_vars(CRAcquire)
    /\ WF_vars(CRIoDone(RestBooks))
    /\ WF_vars(RedeemIoDone \/ RedeemIoFail)

SpecLoops == Init /\ [][NextLoops]_vars /\ LoopFairness

(***************************************************************************)
(* Shutdown                                                                *)
(***************************************************************************)
\* MarketMakerBot.cleanup, lines 121-124: the collaborators in the order
\* their close is awaited
Collaborators ==
    <<"honeypot_service", "ws_client", "order_executor", "auto_redeem">>

\* OrderExecutor.close is a bare pass; the other three await a session, a
\* socket or an HTTP client and can raise
CloseCanRaise == {"honeypot_service", "ws_client", "auto_redeem"}

\* mutant: cleanup leaves the running flag as it finds it
cleanup_head_keeps_running(cancel_ok) ==
    /\ running' = running
    /\ IF current_market_id # ""
       THEN cancel_all_orders(current_market_id, cancel_ok)
       ELSE UNCHANGED exch_live
    /\ last_call' = [op |-> "cleanup", called |-> FALSE,
                     running_at_cancel |-> running',
                     cancel_all |-> IF current_market_id # ""
                                    THEN Some(current_market_id) ELSE None]

\* cleanup, lines 117-120: the flag is cleared, then cancel_all_orders is
\* called for the current market if there is one (the executor swallows
\* its failure and awaits nothing).  The bot's own record of orders is not
\* touched.
cleanup_head(cancel_ok) ==
    /\ running' = FALSE
    /\ IF current_market_id # ""
       THEN cancel_all_orders(current_market_id, cancel_ok)
       ELSE UNCHANGED exch_live
    /\ last_call' = [op |-> "cleanup", called |-> FALSE,
                     running_at_cancel |-> running',
                     cancel_all |-> IF current_market_id # ""
                                    THEN Some(current_market_id) ELSE None]

\* cleanup is entered by the finally clause of run (line 114) or by the
\* lifespan of the API server, and runs up to the first close
CleanupStart ==
    /\ running /\ cleanup_pc = "idle"
    /\ \E cancel_ok \in BOOLEAN : cleanup_head(cancel_ok)
    /\ cleanup_pc' = "closing"
    /\ UNCHANGED <<ledgerVars, is_halted, ctxVars, state_lock, disc_pc,
                   disc_target, cr_pc, redeem_pc, closed, reset_in_progress,
                   reset_pc, orderVars, taskVars, last_quote_time, orderbooks,
                   trade_timestamps, quote_args, engine_call, fillVars>>

\* the close of the next collaborator returns
CleanupClose ==
    /\ cleanup_pc = "closing"
    /\ closed' = Append(closed, Collaborators[Len(closed) + 1])
    /\ cleanup_pc' = IF Len(closed') = Len(Collaborators)
                     THEN "done" ELSE "closing"
    /\ UNCHANGED <<ledgerVars, is_halted, ctxVars, running, state_lock,
                   disc_pc, disc_target, cr_pc, redeem_pc, reset_in_progress,
                   reset_pc, orderVars, taskVars, last_quote_time, orderbooks,
                   trade_timestamps, exch_live, obsVars>>

\* the close of the next collaborator raises: cleanup has no try, the
\* collaborators after it stay open
CleanupCloseFail ==
    /\ cleanup_pc = "closing"
    /\ Collaborators[Len(closed) + 1] \in CloseCanRaise
    /\ cleanup_pc' = "failed"
    /\ UNCHANGED <<ledgerVars, is_halted, ctxVars, running, state_lock,
                   disc_pc, disc_target, cr_pc, redeem_pc, closed,
                   reset_in_progress, reset_pc, orderVars, taskVars,
                   last_quote_time, orderbooks, trade_timestamps, exch_live,
                   obsVars>>

\* the loops while no book arrives, manual orders and the shutdown
NextShutdown ==
    \/ Run
    \/ DiscScanSwitch
    \/ DiscScanSame
    \/ DiscIoDone({EmptyDict})
    \/ DiscIoFail
    \/ CRIdle
    \/ CRTick
    \/ CRIoDone({EmptyDict})
    \/ RedeemTick
    \/ RedeemIoDone
    \/ PlaceManualQuote
    \/ CleanupStart
    \/ CleanupClose
    \/ CleanupCloseFail

SpecShutdown == Init /\ [][NextShutdown]_vars

(***************************************************************************)
(* The re-entrancy guard of _reset_local_market_state                      *)
(***************************************************************************)
\* a call is told from the one before it by its number
NextSeq == IF "seq" \in DOMAIN last_call THEN 1 - last_call.seq ELSE 1

\* mutant: the reset never looks at the flag
returns_immediately_never == FALSE

\* _reset_local_market_state, lines 380-381
returns_immediately == reset_in_progress

\* _reset_local_market_state, lines 394-398: the bot's record is cleared
reset_clears_record ==
    /\ open_orders' = <<>>
    /\ manual_order_ids' = {}
    /\ last_quote_time' = 0

\* a call of _reset_local_market_state (from check_and_defend_orders line
\* 312 or _defend_after_trade line 342) up to its only await, line 390.
\* With the flag set it returns at once.  Otherwise the flag is set; with
\* no market there is nothing to await and the reset runs to its end.
\* The executor that is shipped answers the await without giving up the
\* event loop, so that ResetEnd follows at once; the await is kept as a
\* point where another task may run, which covers any executor.
ResetCall ==
    /\ IF returns_immediately
       THEN /\ UNCHANGED <<exch_live, orderVars, last_quote_time,
                           reset_in_progress, reset_pc>>
            /\ last_call' = [op |-> "reset_local_market_state",
                             called |-> FALSE, returned_early |-> TRUE,
                             seq |-> NextSeq]
       ELSE /\ last_call' = [op |-> "reset_local_market_state",
                             called |-> FALSE, returned_early |-> FALSE,
                             seq |-> NextSeq]
            /\ IF current_market_id # ""
               THEN /\ reset_in_progress' = TRUE
                    /\ reset_pc' = "cancel"
                    /\ UNCHANGED <<exch_live, orderVars, last_quote_time>>
               ELSE /\ reset_clears_record
                    /\ reset_in_progress' = FALSE
                    /\ UNCHANGED <<exch_live, reset_pc>>
    /\ UNCHANGED <<ledgerVars, is_halted, ctxVars, running, state_lock, disc_pc,
                   disc_target, cr_pc, redeem_pc, cleanup_pc, closed, taskVars,
                   orderbooks, trade_timestamps, quote_args, engine_call,
                   fillVars>>

\* the await of line 390 is over.  cancel_all_orders returns True or False
\* (its own except clause swallows a failure of the SDK) and lines 394-398
\* clear the record; or the task is cancelled at the await, which the
\* except clause of line 402 does not catch, and nothing is cleared.  The
\* finally clause of line 404 clears the flag on every path.
ResetEnd ==
    /\ reset_pc = "cancel"
    /\ \/ \E cancel_ok \in BOOLEAN :
            /\ cancel_all_orders(current_market_id, cancel_ok)
            /\ reset_clears_record
       \/ UNCHANGED <<exch_live, orderVars, last_quote_time>>
    /\ reset_in_progress' = FALSE
    /\ reset_pc' = "idle"
    /\ UNCHANGED <<ledgerVars, is_halted, ctxVars, running, state_lock, disc_pc,
                   disc_target, cr_pc, redeem_pc, cleanup_pc, closed, taskVars,
                   orderbooks, trade_timestamps, obsVars>>

\* orders of both kinds on the current market and resets called while
\* another may be running
NextReset ==
    \/ Run
    \/ PlaceQuote
    \/ CancelSingleOrder
    \/ ResetCall
    \/ ResetEnd

SpecReset == Init /\ [][NextReset]_vars

(***************************************************************************)
(* The defence on a book event: check_and_defend_orders                    *)
(***************************************************************************)
\* the books the websocket pushes: a tight book, a book whose bids are not
\* ordered best first, a book wider than 2.5 spreads and a one-sided book
WsBooks ==
    {Book(<<Level(49, 5)>>, <<Level(51, 5)>>),
     Book(<<Level(46, 5), Level(49, 5)>>, <<Level(51, 5)>>),
     Book(<<Level(40, 5)>>, <<Level(60, 5)>>),
     Book(<<>>, <<Level(51, 5)>>)}

\* _handle_orderbook_update, lines 229-241: the levels are stored as they
\* are delivered.  The events are those of the subscribed tokens.
HandleOrderbookUpdate ==
    /\ current_market_id # ""
    /\ \E token_id \in {yes_token_id, no_token_id}, book \in WsBooks :
        orderbooks' = [orderbooks EXCEPT ![token_id] = book]
    /\ UNCHANGED <<ledgerVars, is_halted, ctxVars, loopVars, orderVars,
                   taskVars, last_quote_time, trade_timestamps, exch_live,
                   obsVars>>

\* the orders in which a set of tokens can be iterated
TokenOrders(S) ==
    {order \in [1..Cardinality(S) -> S] :
        \A i, j \in DOMAIN order : order[i] = order[j] => i = j}

\* check_and_defend_orders, lines 318-320, in cents: twice the distance
\* of the price from the mid of the first levels, set against 0.3 spreads
\* and one spread.  price_diff and spread_usd are floats; at a distance of
\* exactly one spread the comparison goes either way (tie).
is_risky(bid, ask, price) == 5 * Abs(bid + ask - 2 * price) < 3 * spread_cents
is_invalid(bid, ask, price, tie) ==
    \/ Abs(bid + ask - 2 * price) > 2 * spread_cents
    \/ tie /\ Abs(bid + ask - 2 * price) = 2 * spread_cents

\* lines 315-322: the orders of the token that are cancelled
defend_hits(st, token_id, tie) ==
    {id \in DOMAIN st.open :
        /\ st.open[id].token_id = token_id
        /\ \/ is_risky(BookOf(token_id).bids[1].price,
                       BookOf(token_id).asks[1].price, st.open[id].price)
           \/ is_invalid(BookOf(token_id).bids[1].price,
                         BookOf(token_id).asks[1].price, st.open[id].price,
                         tie)}

\* lines 295-325 for one token.  st is the bot's record while the loop
\* runs: open_orders, manual_order_ids, the orders live at the exchange,
\* last_quote_time, whether the wide-spread branch returned and whether a
\* cancel failed.  cancel_single_order (lines 670-682) drops an order from
\* the record only when the exchange confirms; it awaits nothing.
defend_token(st, token_id, cancel_ok_ids, tie, reset_ok) ==
    LET book == BookOf(token_id)
    IN  IF st.wide THEN st
        ELSE IF ~book.present \/ book.bids = <<>> \/ book.asks = <<>> THEN st
        ELSE IF 2 * (book.asks[1].price - book.bids[1].price) > 5 * spread_cents
        THEN [st EXCEPT !.open = <<>>, !.manual = {},
                        !.live = IF reset_ok THEN {} ELSE st.live,
                        !.last_quote_time = 0, !.wide = TRUE]
        ELSE LET hits == defend_hits(st, token_id, tie)
                 gone == hits \cap cancel_ok_ids
             IN  [st EXCEPT !.open = Remove(st.open, gone),
                            !.manual = st.manual \ gone,
                            !.live = st.live \ gone,
                            !.failed = st.failed \/ hits # gone]

RECURSIVE defend_tokens(_, _, _, _, _)
defend_tokens(st, order, cancel_ok_ids, tie, reset_ok) ==
    IF order = <<>> THEN st
    ELSE defend_tokens(defend_token(st, Head(order), cancel_ok_ids, tie, reset_ok),
                       Tail(order), cancel_ok_ids, tie, reset_ok)

\* check_and_defend_orders, the task created by a book event.  A halted
\* bot returns at line 290.  The tokens of the open orders are iterated in
\* the order of a Python set.
CheckAndDefend ==
    /\ current_market_id # ""
    /\ \E b \in DOMAIN orderbooks : orderbooks[b].present
    /\ IF is_halted
       THEN /\ UNCHANGED <<exch_live, orderVars, last_quote_time>>
            /\ last_call' = [op |-> "check_and_defend_orders",
                             called |-> FALSE, halted |-> TRUE,
                             seq |-> NextSeq]
       ELSE \E order \in TokenOrders({open_orders[id].token_id :
                                           id \in DOMAIN open_orders}),
               cancel_ok_ids \in SUBSET OrderIds, tie \in BOOLEAN,
               reset_ok \in BOOLEAN :
            \E st \in {defend_tokens([open |-> open_orders,
                                      manual |-> manual_order_ids,
                                      live |-> exch_live,
                                      last_quote_time |-> last_quote_time,
                                      wide |-> FALSE, failed |-> FALSE],
                                     order, cancel_ok_ids, tie, reset_ok)} :
                /\ open_orders' = st.open
                /\ manual_order_ids' = st.manual
                /\ exch_live' = st.live
                /\ last_quote_time' = st.last_quote_time
                /\ last_call' = [op |-> "check_and_defend_orders",
                                 called |-> FALSE, halted |-> FALSE,
                                 wide |-> st.wide, failed |-> st.failed,
                                 seq |-> NextSeq]
    /\ UNCHANGED <<ledgerVars, is_halted, ctxVars, loopVars, taskVars,
                   orderbooks, trade_timestamps, quote_args, engine_call,
                   fillVars>>

\* manual bids at three prices
PlaceQuoteAround == PlaceQuoteOf({"BUY"}, Prices, {TRUE})

\* orders on the current market, book events, the defence they trigger,
\* and the slippage breaker and manual reset that halt and resume
NextDefend ==
    \/ Run
    \/ PlaceQuoteAround
    \/ HandleOrderbookUpdate
    \/ CheckAndDefend
    \/ DefendTask
    \/ ResetBot

SpecDefend == Init /\ [][NextDefend]_vars

(***************************************************************************)
(* C9: after every ledger operation, net_exposure_shares equals            *)
(* yes_position minus no_position.                                         *)
(***************************************************************************)
NetExposureIsDifference == net_exposure_shares = yes_position - no_position

\* both positions moved, one of them below zero, and the exposure is not 0
NetExposureWitness ==
    /\ yes_position > 0 /\ no_position < 0
    /\ net_exposure_shares = yes_position - no_position

(***************************************************************************)
(* C10: in every inventory state, negative positions included, get_skew    *)
(* lies in [0,1], and it is 0 when both positions are 0.                   *)
(***************************************************************************)
SkewInUnitInterval ==
    /\ get_skew[2] > 0
    /\ 0 <= get_skew[1] /\ get_skew[1] <= get_skew[2]
    /\ (yes_position = 0 /\ no_position = 0) => get_skew[1] = 0

\* a negative position next to a positive one: the skew is exactly 1
SkewWitness ==
    /\ yes_position > 0 /\ no_position < 0
    /\ get_skew[1] = get_skew[2]

(***************************************************************************)
(* C2: when is_halted is true, validate_order returns the trading-halted   *)
(* rejection for every side, size, order book and inventory, and does so   *)
(* without evaluating another rule (no other reason, no exception of       *)
(* another rule).                                                          *)
(***************************************************************************)
HaltedRejectsFirst ==
    (last_call.called /\ last_call.halted) =>
        last_call.result = Ret(FALSE, "TRADING_HALTED_BY_CIRCUIT_BREAKER")

\* a halted call on a book another rule would have rejected or raised on
HaltedRejectsWitness ==
    /\ last_call.called /\ last_call.halted
    /\ last_call.book = Book(<<Level(49, 95)>>, <<Level(51, 5)>>)
    /\ last_call.result = Ret(FALSE, "TRADING_HALTED_BY_CIRCUIT_BREAKER")

(***************************************************************************)
(* C3: validate_order rejects every call whose side is BUY.                *)
(***************************************************************************)
BuyAlwaysRejected ==
    (last_call.called /\ last_call.side = "BUY") => ~last_call.result.ok

(***************************************************************************)
(* C1: no order is submitted to the executor, by quote placement or by the *)
(* auto-hedge, while is_halted is true.  A step that takes a hedge off the *)
(* waiting list is execute_auto_hedge calling place_order; a step that     *)
(* adds a key to open_orders is _place_quote having placed an order.       *)
(***************************************************************************)
NoSubmissionWhileHalted ==
    [][(\/ Len(hedges') < Len(hedges)
        \/ DOMAIN open_orders' \ DOMAIN open_orders # {}) => ~is_halted]_vars

(***************************************************************************)
(* C4: is_halted goes from true to false only in a step that calls         *)
(* reset_halt: the cooldown task (one cooldown fewer is sleeping) or the   *)
(* manual reset (nothing else changes).                                    *)
(***************************************************************************)
HaltClearedOnlyByReset ==
    [][(is_halted /\ ~is_halted') =>
           \/ cooldowns' = cooldowns - 1
           \/ UNCHANGED <<ledgerVars, botVars>>]_vars

(***************************************************************************)
(* C5: the market-switch critical section and a cancel-replace tick are    *)
(* never both between their start and their end.                           *)
(***************************************************************************)
SwitchAndTickExclusive == ~(disc_pc = "cs_io" /\ cr_pc = "refresh_io")

\* a tick waits for the lock while the critical section is suspended
SwitchAndTickWitness == disc_pc = "cs_io" /\ cr_pc = "wait_lock"

(***************************************************************************)
(* C6: the market id, the token ids, the minimum size, the spread and the  *)
(* tick size handed to generate_quotes all belong to one market.           *)
(***************************************************************************)
QuoteContextOfOneMarket ==
    quote_args.called =>
        \E m \in Markets :
            /\ quote_args.market_id = m.market_id
            /\ quote_args.yes_token_id = m.yes_token_id
            /\ quote_args.no_token_id = m.no_token_id
            /\ quote_args.min_size = m.min_size
            /\ quote_args.spread_cents = m.spread_cents
            /\ quote_args.tick_size \in {m.tick, DefaultTick}

(***************************************************************************)
(* C7: every order resting at the exchange (accepted, neither filled nor   *)
(* cancelled) is a key of open_orders.                                     *)
(***************************************************************************)
LiveOrdersTracked == exch_live \subseteq DOMAIN open_orders

(***************************************************************************)
(* C8: a step that changes the current market leaves both positions of the *)
(* ledger at zero.                                                         *)
(***************************************************************************)
LedgerResetOnSwitch ==
    [][current_market_id' # current_market_id =>
           (yes_position' = 0 /\ no_position' = 0)]_vars

(***************************************************************************)
(* C16: from any gate state, reset_halt leaves the gate in its initial     *)
(* state.  The gate's only mutable field is is_halted (RiskManager keeps   *)
(* no leg-risk flag and no recovery price), so the state after the call is *)
(* is_halted = FALSE.                                                      *)
(***************************************************************************)
ResetRestoresGate == last_call.op = "reset_halt" => ~is_halted

\* reset_halt was called on a halted gate
ResetRestoresWitness ==
    last_call.op = "reset_halt" /\ last_call.halted /\ ~is_halted

(***************************************************************************)
(* C17, as stated: whenever actual < expected - max_allowed_slippage,      *)
(* validate_execution_price halts the gate and returns false, for every    *)
(* side.                                                                   *)
(***************************************************************************)
BelowSlippageAlwaysHalts ==
    (/\ last_call.op = "validate_execution_price"
     /\ last_call.actual < last_call.expected - max_allowed_slippage) =>
        (~last_call.result /\ is_halted)

(***************************************************************************)
(* C17, amended: a SELL executed below expected - max_allowed_slippage,    *)
(* or a BUY executed above expected + max_allowed_slippage, halts the gate *)
(* and returns false; every other call returns true; a call that returns   *)
(* true leaves is_halted as it was.                                        *)
(***************************************************************************)
AdverseSlippageHalts ==
    last_call.op = "validate_execution_price" =>
        LET adverse ==
                \/ /\ last_call.side = "SELL"
                   /\ last_call.actual < last_call.expected - max_allowed_slippage
                \/ /\ last_call.side = "BUY"
                   /\ last_call.actual > last_call.expected + max_allowed_slippage
        IN  /\ adverse => (~last_call.result /\ is_halted)
            /\ ~adverse => last_call.result
            /\ last_call.result => (is_halted = last_call.halted)

\* a SELL executed two cents below the expected price halted a running gate
AdverseSlippageWitness ==
    /\ last_call.op = "validate_execution_price"
    /\ last_call.side = "SELL" /\ last_call.expected = 50 /\ last_call.actual = 48
    /\ ~last_call.halted /\ is_halted /\ ~last_call.result

(***************************************************************************)
(* C18: with trading not halted, validate_order rejects for upward         *)
(* imbalance exactly when (bidVol - askVol)/(bidVol + askVol) > 0.8, the   *)
(* volumes being the sizes of the first three levels of each side.         *)
(***************************************************************************)
ObiOverTopThree ==
    (/\ last_call.op = "validate_order" /\ ~last_call.halted
     /\ last_call.book.bids # <<>> /\ last_call.book.asks # <<>>
     /\ \A i \in 1..Len(last_call.book.bids) : last_call.book.bids[i].fmt = "dict"
     /\ \A i \in 1..Len(last_call.book.asks) : last_call.book.asks[i].fmt = "dict") =>
        LET bids == last_call.book.bids
            asks == last_call.book.asks
            sz(levels, i) == IF i <= Len(levels) THEN levels[i].size ELSE 0
            bidVol == sz(bids, 1) + sz(bids, 2) + sz(bids, 3)
            askVol == sz(asks, 1) + sz(asks, 2) + sz(asks, 3)
        IN  (bidVol + askVol > 0 /\ 10 * (bidVol - askVol) > 8 * (bidVol + askVol))
                <=> (last_call.result = Ret(FALSE, "OBI_HIGH_UPWARD_RISK"))

\* bid volume 95 against ask volume 5 was rejected on a gate that runs
ObiOverTopThreeWitness ==
    /\ last_call.op = "validate_order" /\ ~last_call.halted
    /\ last_call.book = Book(<<Level(49, 95)>>, <<Level(51, 5)>>)
    /\ last_call.result = Ret(FALSE, "OBI_HIGH_UPWARD_RISK")

(***************************************************************************)
(* C11: generate_quotes returns (None, None) whenever both positions are   *)
(* <= 0, whatever the order books are.                                     *)
(***************************************************************************)
NoQuotesWithoutInventory ==
    (/\ engine_call.op = "generate_quotes"
     /\ yes_position <= 0 /\ no_position <= 0) =>
        engine_call.result = <<None, None>>

(***************************************************************************)
(* C12: whenever generate_quotes emits two quotes with both sides held,    *)
(* the two prices sum to at least 1.01.                                    *)
(***************************************************************************)
DualQuotesCoverPrincipal ==
    (/\ engine_call.op = "generate_quotes"
     /\ yes_position > 0 /\ no_position > 0
     /\ engine_call.result[1] # None /\ engine_call.result[2] # None) =>
        engine_call.result[1][1].price + engine_call.result[2][1].price
            >= 1010000

(***************************************************************************)
(* C13: when only one outcome is held, the quote emitted for that leg has  *)
(* a price >= max(the token's best ask, 1 - last sold price of the other   *)
(* side); in particular it is not below the token's best ask.              *)
(***************************************************************************)
SingleLegAtOrAboveAsk ==
    engine_call.op = "generate_quotes" =>
        /\ (/\ yes_position > 0 /\ no_position <= 0
            /\ engine_call.result[1] # None) =>
               engine_call.result[1][1].price >= engine_call.yes_best_ask
        /\ (/\ no_position > 0 /\ yes_position <= 0
            /\ engine_call.result[2] # None) =>
               engine_call.result[2][1].price >= engine_call.no_best_ask

(***************************************************************************)
(* C15: for every price and every tick > 0, round_to_tick returns a value  *)
(* >= price that is a whole multiple of the tick.                          *)
(***************************************************************************)
RoundsUpToTick ==
    (engine_call.op = "round_to_tick" /\ engine_call.tick_size > 0) =>
        /\ engine_call.result >= engine_call.price
        /\ engine_call.result % engine_call.tick_size = 0

(***************************************************************************)
(* C14: while leg risk is active (a SELL order of one leg was filled, at   *)
(* the sold price), no order on the other leg of the market passes the     *)
(* gate at a price below the recovery floor max(1 - sold price, min tick). *)
(* A filled order is one in open_orders that no longer rests at the        *)
(* exchange; the floor is at least 100 cents minus the sold price.         *)
(***************************************************************************)
NoOrderBelowRecovery ==
    [][\A new \in DOMAIN open_orders' \ DOMAIN open_orders :
         \A sold \in DOMAIN open_orders \ exch_live :
            (/\ open_orders[sold].side = "SELL"
             /\ open_orders[sold].market = open_orders'[new].market
             /\ open_orders[sold].token_id # open_orders'[new].token_id) =>
                open_orders'[new].price >= 100 - open_orders[sold].price]_vars

(***************************************************************************)
(* C19: an exception raised inside the body of a periodic loop (the        *)
(* cancel-replace cycle, market discovery, auto-redeem) never ends the     *)
(* loop: every loop is at the sleep before its next tick again and again.  *)
(***************************************************************************)
LoopsReachNextTick ==
    /\ []<>(disc_pc = "sleep")
    /\ []<>(cr_pc = "sleep")
    /\ []<>(redeem_pc = "sleep")

\* refresh_quotes raised its TypeError inside the cancel-replace tick and
\* the loop is at its sleep again, with the lock released
LoopsReachNextTickWitness ==
    /\ running
    /\ quote_args.called /\ quote_args.caller = "refresh"
    /\ cr_pc = "sleep" /\ state_lock = "free"

(***************************************************************************)
(* C20: every emergency exit, with exit_position true or false, sets       *)
(* is_halted, cancels the orders and schedules the cooldown after which    *)
(* is_halted is false again.                                               *)
(***************************************************************************)
EmergencySchedulesCooldown ==
    [][(\/ emergencies' < emergencies
        \/ (~is_halted /\ is_halted' /\ get_inventory_status = "EMERGENCY"))
       => cooldowns' = cooldowns + 1]_vars

(***************************************************************************)
(* C21: after a fill event that carries an order id has been handled, the  *)
(* id is in neither open_orders nor manual_order_ids, whatever the side    *)
(* and the token of the fill.                                              *)
(***************************************************************************)
FilledOrderForgotten ==
    [][(last_fill' # last_fill /\ last_fill'.order_id # NoId) =>
          /\ last_fill'.order_id \notin DOMAIN open_orders'
          /\ last_fill'.order_id \notin manual_order_ids']_vars

(***************************************************************************)
(* C22: handling a fill on a token of the current market moves the         *)
(* position of that outcome by +size for a BUY and by -size for a SELL and *)
(* leaves the other position as it was.                                    *)
(***************************************************************************)
FillMovesOneLeg ==
    [][(/\ last_fill' # last_fill
        /\ last_fill'.token_id \in {yes_token_id, no_token_id}) =>
          LET fill == last_fill'
              delta == IF fill.side = "BUY" THEN fill.size ELSE -fill.size
          IN  /\ yes_position' = yes_position +
                    (IF fill.token_id = yes_token_id THEN delta ELSE 0)
              /\ no_position' = no_position +
                    (IF fill.token_id = no_token_id THEN delta ELSE 0)]_vars

\* the last fill was one of a tracked order at a price beyond the slippage
\* limit, on the adverse side of the order's own price
SlippedFill ==
    /\ last_fill.called
    /\ last_fill.order_id \in DOMAIN open_orders
    /\ is_bad_execution(open_orders[last_fill.order_id].price, last_fill.price,
                        open_orders[last_fill.order_id].side)

(***************************************************************************)
(* C25: a fill whose price breaches the slippage limit against the price   *)
(* of the filled order leads to a halted bot.                              *)
(***************************************************************************)
SlippedFillHalts == SlippedFill ~> is_halted

\* a fill was handled and the skew is at or above emergency_skew_limit
EmergencySkewAfterFill ==
    last_fill.called /\ get_inventory_status = "EMERGENCY"

(***************************************************************************)
(* C26: a fill that leaves the inventory skew at or above                  *)
(* emergency_skew_limit leads to the emergency exit: is_halted is set.     *)
(***************************************************************************)
EmergencySkewHalts == EmergencySkewAfterFill ~> is_halted

(***************************************************************************)
(* C27: a handled fill creates the toxic-flow emergency exactly when it is *)
(* the fifth or a later fill of the last 10 seconds.                       *)
(***************************************************************************)
ToxicFlowAtFifthFill ==
    [][(recent_fills' # recent_fills /\ recent_fills' # <<>>) =>
          ((Len(recent_fills') >= ToxicFillCount)
              <=> (emergencies' = emergencies + 1))]_vars

(***************************************************************************)
(* C28: with trading not halted, validate_order rejects every order when   *)
(* the order book has no bids or no asks.                                  *)
(***************************************************************************)
EmptyBookRejected ==
    (/\ last_call.op = "validate_order" /\ ~last_call.halted
     /\ (last_call.book.bids = <<>> \/ last_call.book.asks = <<>>)) =>
        ~last_call.result.ok

\* the highest bid and the lowest ask of a stored book, 0.0 and 1.0 for an
\* empty side, in cents
MaxBid(book) ==
    IF book.bids = <<>> THEN 0
    ELSE CHOOSE p \in {book.bids[i].price : i \in DOMAIN book.bids} :
             \A i \in DOMAIN book.bids : book.bids[i].price <= p
MinAsk(book) ==
    IF book.asks = <<>> THEN 100
    ELSE CHOOSE p \in {book.asks[i].price : i \in DOMAIN book.asks} :
             \A i \in DOMAIN book.asks : book.asks[i].price >= p

\* a cancel-replace tick whose refresh interval has elapsed and that finds
\* both books stored
RefreshTick ==
    /\ last_quote_time' # last_quote_time /\ last_quote_time' # 0
    /\ BookOf(yes_token_id).present /\ BookOf(no_token_id).present

(***************************************************************************)
(* C23: on a cancel-replace tick (bot not halted, market set, both books   *)
(* stored, interval elapsed) refresh_quotes obtains quotes from the engine *)
(* and goes on to cancel the stale orders and to place the new quotes.     *)
(* Stated as: the engine call of such a tick returns.                      *)
(***************************************************************************)
RefreshObtainsQuotes ==
    [][RefreshTick => quote_args'.called /\ ~quote_args'.result.raised]_vars

(***************************************************************************)
(* C24: whenever no market switch is in progress, the market context       *)
(* (market id, YES and NO token ids, minimum size, spread, tick size) is   *)
(* that of one market: an external call that fails inside the switch does  *)
(* not leave a mixture.  The tick size of a market is the fetched one or   *)
(* the fallback 0.01.                                                      *)
(***************************************************************************)
SwitchLeavesOneMarket ==
    (current_market_id # "" /\ disc_pc # "cs_io") =>
        \E m \in Markets :
            /\ current_market_id = m.market_id
            /\ yes_token_id = m.yes_token_id /\ no_token_id = m.no_token_id
            /\ min_size = m.min_size /\ spread_cents = m.spread_cents
            /\ current_tick_size \in {m.tick, DefaultTick}

(***************************************************************************)
(* C29: the best bid and best ask that refresh_quotes hands to the quote   *)
(* engine are the highest bid and the lowest ask of the stored book of     *)
(* each token, whatever the order of the levels.                           *)
(***************************************************************************)
BestOfBookIsExtreme ==
    [][RefreshTick =>
        /\ quote_args'.yes_best_bid = MaxBid(BookOf(yes_token_id))
        /\ quote_args'.yes_best_ask = MinAsk(BookOf(yes_token_id))
        /\ quote_args'.no_best_bid = MaxBid(BookOf(no_token_id))
        /\ quote_args'.no_best_ask = MinAsk(BookOf(no_token_id))]_vars

(***************************************************************************)
(* C30: a discovery scan whose first candidate is not the current market   *)
(* switches to it: the market id, the token ids and the minimum size       *)
(* become those of candidates[0] and the old market's orders are dropped   *)
(* from open_orders; while the loops run the market changes in no other    *)
(* way, so a scan whose first candidate is the current market switches     *)
(* nothing.                                                                *)
(***************************************************************************)
DiscoverySwitchesToFirst ==
    [][/\ (disc_pc # "cs_io" /\ disc_pc' = "cs_io") =>
            /\ current_market_id' # current_market_id
            /\ disc_target' \in Markets
            /\ current_market_id' = disc_target'.market_id
            /\ yes_token_id' = disc_target'.yes_token_id
            /\ no_token_id' = disc_target'.no_token_id
            /\ min_size' = disc_target'.min_size
            /\ current_market_id # "" => open_orders' = <<>>
       /\ (running /\ current_market_id' # current_market_id) =>
            (disc_pc # "cs_io" /\ disc_pc' = "cs_io")]_vars

\* the discovery loop has replaced market m1 by m2 and the orders it
\* tracked are dropped
DiscoverySwitchesToFirstWitness ==
    /\ running /\ disc_pc = "cs_io"
    /\ disc_target = M2 /\ current_market_id = "m2"
    /\ yes_token_id = "y2" /\ no_token_id = "n2" /\ min_size = M2.min_size
    /\ open_orders = <<>> /\ manual_order_ids # {}

(***************************************************************************)
(* C32: record_minting(amount) has exactly the effect of                   *)
(* update(+amount, +amount): both positions grow by amount and             *)
(* net_exposure_shares keeps its value.                                    *)
(***************************************************************************)
MintIsNeutralUpdate ==
    [][(last_call' # last_call /\ last_call'.op = "record_minting") =>
          /\ yes_position' = yes_position + last_call'.amount
          /\ no_position' = no_position + last_call'.amount
          /\ net_exposure_shares' = net_exposure_shares
          /\ Inventory_update(last_call'.amount, last_call'.amount)]_vars

\* one share of each outcome was minted on an empty ledger
MintIsNeutralUpdateWitness ==
    /\ last_call.op = "record_minting" /\ last_call.yes_before = 0
    /\ yes_position = last_call.amount /\ no_position = last_call.amount
    /\ net_exposure_shares = 0 /\ get_skew[1] = 0

(***************************************************************************)
(* C33: execute_manual_mint changes the ledger only after the split has    *)
(* succeeded: with an insufficient balance, a failed split or an exception *)
(* the positions are unchanged and False is returned; with a sufficient    *)
(* balance and a split the chain accepts, both positions grow by the       *)
(* amount and True is returned.                                            *)
(***************************************************************************)
MintFollowsSplit ==
    [][(last_call' # last_call /\ last_call'.op = "execute_manual_mint") =>
          IF last_call'.balance = "sufficient" /\ last_call'.chain_ok
          THEN /\ last_call'.result
               /\ yes_position' = yes_position + last_call'.amount
               /\ no_position' = no_position + last_call'.amount
          ELSE /\ ~last_call'.result
               /\ UNCHANGED ledgerVars]_vars

(***************************************************************************)
(* C34: in every reachable state manual_order_ids is a subset of the keys  *)
(* of open_orders.                                                         *)
(***************************************************************************)
ManualIdsTracked == manual_order_ids \subseteq DOMAIN open_orders

StaleTimerKeepsHalt ==
    [][(cooldowns' = cooldowns - 1 /\ stale_cooldowns > 0 /\ is_halted)
          => is_halted']_vars

QuotesMeetMinimumSize ==
    engine_call.op = "generate_quotes" =>
        \A i \in 1..2 :
            engine_call.result[i] # None =>
                /\ engine_call.result[i][1].size >= engine_call.min_size_shares
                /\ 10000 < engine_call.result[i][1].price
                /\ engine_call.result[i][1].price < 990000

(***************************************************************************)
(* C31: on shutdown the running flag is cleared first, then cancel-all for *)
(* the current market is issued, and only then are the collaborators       *)
(* closed, the discovery service, the websocket client, the executor and   *)
(* auto-redeem in that order; once running is false no loop starts another *)
(* iteration.                                                              *)
(***************************************************************************)
ShutdownOrder ==
    /\ [](cleanup_pc # "idle" => ~running)
    /\ [](closed # <<>> => cleanup_pc # "idle")
    /\ [](\E n \in 0..Len(Collaborators) : closed = SubSeq(Collaborators, 1, n))
    /\ [][(cleanup_pc = "idle" /\ cleanup_pc' # "idle") =>
            /\ closed' = <<>>
            /\ last_call'.op = "cleanup"
            /\ ~last_call'.running_at_cancel
            /\ last_call'.cancel_all = IF current_market_id # ""
                                       THEN Some(current_market_id) ELSE None]_vars
    /\ [][(~running /\ cleanup_pc # "idle") =>
            /\ disc_pc = "sleep" => disc_pc' = "sleep" /\ ctxVars' = ctxVars
            /\ cr_pc = "sleep" =>
                /\ cr_pc' = "sleep"
                /\ last_quote_time' \in {last_quote_time, 0}
            /\ redeem_pc = "sleep" => redeem_pc' = "sleep"]_vars

ShutdownOrderWitness ==
    /\ cleanup_pc = "done"
    /\ closed = Collaborators
    /\ ~running
    /\ current_market_id # ""
    /\ open_orders # <<>>
    /\ disc_pc = "sleep" /\ cr_pc = "sleep" /\ redeem_pc = "sleep"

(***************************************************************************)
(* C40: while a reset is between its start and its end, a concurrent call  *)
(* of _reset_local_market_state returns immediately, issues no cancel-all  *)
(* and clears nothing; and _reset_in_progress is false again once the      *)
(* running reset has ended, completed or raised.                           *)
(***************************************************************************)
ResetIsGuarded ==
    /\ [](reset_in_progress <=> reset_pc = "cancel")
    /\ [][(/\ reset_pc = "cancel"
            /\ last_call' # last_call
            /\ last_call'.op = "reset_local_market_state") =>
            /\ last_call'.returned_early
            /\ UNCHANGED <<exch_live, open_orders, manual_order_ids,
                           last_quote_time, reset_in_progress, reset_pc>>]_vars
    /\ [][(reset_pc = "cancel" /\ reset_pc' = "idle") => ~reset_in_progress']_vars

ResetIsGuardedWitness ==
    /\ reset_pc = "cancel"
    /\ reset_in_progress
    /\ last_call.op = "reset_local_market_state"
    /\ last_call.returned_early
    /\ open_orders # <<>>
    /\ manual_order_ids # {}
    /\ exch_live # {}

\* the distance of a price from the mid of a book, doubled, in cents
MidDistance2(book, price) == Abs(MaxBid(book) + MinAsk(book) - 2 * price)

(***************************************************************************)
(* C39: after check_and_defend_orders has run without taking the           *)
(* wide-spread reset branch and with every cancellation succeeding, each   *)
(* order left in open_orders on a token whose stored book has bids and     *)
(* asks is priced between 0.3 spreads and one spread from that token's     *)
(* mid; and with trading halted the step cancels nothing and changes no    *)
(* state.                                                                  *)
(***************************************************************************)
DefendLeavesBand ==
    [][(/\ last_call' # last_call
        /\ last_call'.op = "check_and_defend_orders") =>
        IF last_call'.halted
        THEN UNCHANGED <<ledgerVars, is_halted, botVars>>
        ELSE (~last_call'.wide /\ ~last_call'.failed) =>
                \A id \in DOMAIN open_orders' :
                    LET order == open_orders'[id]
                        book == BookOf(order.token_id)
                    IN  (book.bids # <<>> /\ book.asks # <<>>) =>
                            /\ 5 * MidDistance2(book, order.price) >= 3 * spread_cents
                            /\ MidDistance2(book, order.price) <= 2 * spread_cents]_vars

====
